---- MODULE Spec2Model ----
\* Model of menfess-bot (src/menfess-bot/bot.py): the daily quota counters of
\* check_limit over the `limits` table, the one-time `welcome` marker, and the
\* handlers that use them (menfess_handler, download_handler, welcome_handler)
\* together with the Telegram calls they await.
EXTENDS Integers, Sequences, FiniteSets, TLC

\* ---------------------------------------------------------------- bounds
MaxDay == 2          \* calendar days date.today() runs through
MaxLimit == 2        \* max_limit values 0..MaxLimit passed to check_limit directly
MaxCalls == 3        \* direct check_limit calls in one run of SpecGate
MaxUpdates == 3      \* updates the Application dispatches in one run of SpecBot
NumTasks == 2        \* handler coroutines that may be in flight together
MaxMembers == 2      \* length of new_chat_members in one join event

\* ------------------------------------------------------- program domains
Users == {1, 2}                              \* Telegram user ids
Types == {"text", "media", "download"}       \* limit_type values used by the handlers
Days == 1..MaxDay
Pairs == Users \X Types
Keys == Users \X Types \X Days
NoRow == -1                                  \* cur.fetchone() returning None

VARIABLES
    limits,     \* table limits: [Keys -> Seq(Nat)], the count column of the rows of
                \* each (user_id, type, date), in rowid order (the table has no key)
    today,      \* str(date.today())
    calls,      \* history: per (user, type), today's check_limit calls in order,
                \* each [limit, allowed]
    ncalls,     \* history: direct check_limit calls made so far
    welcome,    \* table welcome: the set of user_id (PRIMARY KEY)
    greeted,    \* history: per user, welcome replies issued
    pc,         \* per task: "idle", or the Telegram call the handler awaits
    ev,         \* per task in welcome_handler: [members, idx] of its for loop
    lastCall,   \* history: the Telegram call that completed last
    updates     \* history: updates dispatched so far

vars == <<limits, today, calls, ncalls, welcome, greeted, pc, ev, lastCall, updates>>
botVars == <<welcome, greeted, pc, ev, lastCall, updates>>

Tasks == 1..NumTasks

\* ------------------------------------------------------------ check_limit
\* sequence concatenation of the rows of the days 1..n
RECURSIVE RowsUpTo(_, _, _, _)
RowsUpTo(tbl, u, ty, n) ==
    IF n = 0 THEN <<>> ELSE RowsUpTo(tbl, u, ty, n - 1) \o tbl[<<u, ty, n>>]

\* faulty variant: the SELECT without "AND date=?"
SelectRowsAnyDate(tbl, u, ty, d) == RowsUpTo(tbl, u, ty, MaxDay)

\* SELECT count FROM limits WHERE user_id=? AND type=? AND date=?
SelectRows(tbl, u, ty, d) == tbl[<<u, ty, d>>]

\* cur.fetchone(): the first row of the result, None when there is none
FetchOne(rows) == IF rows = <<>> THEN NoRow ELSE Head(rows)

\* faulty variant: ">" for ">="
LimitExceeded(row, max_limit) == row # NoRow /\ row > max_limit

\* if row and row[0] >= max_limit
LimitReached(row, max_limit) == row # NoRow /\ row >= max_limit

\* faulty variant: the UPDATE without "AND type=?"
UpdateRowsAnyType(tbl, u, ty, d) ==
    [k \in Keys |-> IF k[1] = u /\ k[3] = d
                    THEN [i \in DOMAIN tbl[k] |-> tbl[k][i] + 1]
                    ELSE tbl[k]]

\* UPDATE limits SET count=count+1 WHERE user_id=? AND type=? AND date=?
UpdateRows(tbl, u, ty, d) ==
    [tbl EXCEPT ![<<u, ty, d>>] = [i \in DOMAIN @ |-> @[i] + 1]]

\* INSERT INTO limits VALUES (?, ?, 1, ?)
InsertRow(tbl, u, ty, d) == [tbl EXCEPT ![<<u, ty, d>>] = Append(@, 1)]

\* faulty variant: INSERT whether or not a row exists
AlwaysInsert(tbl, row, u, ty, d) == InsertRow(tbl, u, ty, d)

\* if row: UPDATE ... else: INSERT ...
WriteRow(tbl, row, u, ty, d) ==
    IF row # NoRow THEN UpdateRows(tbl, u, ty, d) ELSE InsertRow(tbl, u, ty, d)

\* the value check_limit returns
check_limit_result(tbl, u, ty, d, max_limit) ==
    ~LimitReached(FetchOne(SelectRows(tbl, u, ty, d)), max_limit)

\* the limits table check_limit leaves behind
check_limit_table(tbl, u, ty, d, max_limit) ==
    LET row == FetchOne(SelectRows(tbl, u, ty, d))
    IN  IF LimitReached(row, max_limit) THEN tbl ELSE WriteRow(tbl, row, u, ty, d)

\* one whole call check_limit(u, ty, max_limit) on day `today`
check_limit(u, ty, max_limit) ==
    /\ limits' = check_limit_table(limits, u, ty, today, max_limit)
    /\ calls' = [calls EXCEPT ![<<u, ty>>] =
                    Append(@, [limit |-> max_limit,
                               allowed |-> check_limit_result(limits, u, ty, today, max_limit)])]

\* ------------------------------------------------------ Telegram calls
\* How an awaited bot call ends: it returns, or raises TimedOut/NetworkError
\* ("retryable"), or raises another TelegramError ("fatal").
Outcomes == {"ok", "retryable", "fatal"}

\* `await bot.send_message(...)` and the other awaited calls: the handler issues
\* the request once and waits for it; there is no loop and no sleep around it.
\* `raised` says whether an exception reaches the awaiting handler.
Attempt(outcome) ==
    [attempts |-> 1, sleeps |-> 0, outcome |-> outcome, raised |-> outcome # "ok"]
NoCall == [attempts |-> 0, sleeps |-> 0, outcome |-> "none", raised |-> FALSE]

\* bot.py creates no semaphore and acquires nothing around an awaited call
SlotHolders == {}

\* the governor's settings as the specification states them (no code sets them)
ConcurrencyLimit == 10
MaxRetries == 3

NoEvent == [members |-> <<>>, idx |-> 0]

\* ------------------------------------------------------------------ Init
Init ==
    /\ limits = [k \in Keys |-> <<>>]
    /\ today = 1
    /\ calls = [p \in Pairs |-> <<>>]
    /\ ncalls = 0
    /\ welcome = {}
    /\ greeted = [u \in Users |-> 0]
    /\ pc = [t \in Tasks |-> "idle"]
    /\ ev = [t \in Tasks |-> NoEvent]
    /\ lastCall = NoCall
    /\ updates = 0

\* ------------------------------------------------- SpecGate: direct calls
CheckLimitCall ==
    \E u \in Users, ty \in Types, L \in 0..MaxLimit :
        /\ ncalls < MaxCalls
        /\ check_limit(u, ty, L)
        /\ ncalls' = ncalls + 1
        /\ UNCHANGED <<today, botVars>>

\* midnight: date.today() moves to the next calendar day
NextDay ==
    /\ today < MaxDay
    /\ today' = today + 1
    /\ calls' = [p \in Pairs |-> <<>>]
    /\ UNCHANGED <<limits, ncalls, botVars>>

NextGate == CheckLimitCall \/ NextDay

SpecGate == Init /\ [][NextGate]_vars

\* --------------------------------------------------------- menfess_handler
\* An update routed to menfess_handler: update.message may be None (an edited
\* message); otherwise the text carries #pria/#wanita or not, and the message
\* carries a photo/video or not.
MenfessUpdates ==
    {[present |-> FALSE, tag |-> FALSE, media |-> FALSE]}
        \cup [present : {TRUE}, tag : BOOLEAN, media : BOOLEAN]

\* limit_type = "media" if msg.photo or msg.video else "text"
limit_type(msg) == IF msg.media THEN "media" ELSE "text"

\* max_limit = 10 if limit_type == "media" else 5
max_limit(ty) == IF ty = "media" THEN 10 ELSE 5

\* the limit download_handler passes: check_limit(user.id, "download", 2)
DownloadLimit == 2

\* the limit each handler passes for a limit_type
LimitOf(ty) == IF ty = "download" THEN DownloadLimit ELSE max_limit(ty)

\* menfess_handler up to its first await: validation, then the quota
menfess_checks(msg) == msg.present /\ msg.tag

\* faulty variant: the quota is taken before the hashtag is looked at
menfess_table_quota_first(tbl, u, msg, d) ==
    IF msg.present
    THEN check_limit_table(tbl, u, limit_type(msg), d, max_limit(limit_type(msg)))
    ELSE tbl

menfess_table(tbl, u, msg, d) ==
    IF menfess_checks(msg)
    THEN check_limit_table(tbl, u, limit_type(msg), d, max_limit(limit_type(msg)))
    ELSE tbl

menfess_pc(tbl, u, msg, d) ==
    IF ~msg.present THEN "idle"
    ELSE IF ~msg.tag THEN "mf_reject"
    ELSE IF check_limit_result(tbl, u, limit_type(msg), d, max_limit(limit_type(msg)))
         THEN "mf_copy1" ELSE "mf_denied"

LogCall(u, ty, lim, ok) ==
    [calls EXCEPT ![<<u, ty>>] = Append(@, [limit |-> lim, allowed |-> ok])]

MenfessDispatch ==
    \E t \in Tasks, u \in Users, msg \in MenfessUpdates :
        /\ pc[t] = "idle"
        /\ updates < MaxUpdates
        /\ updates' = updates + 1
        /\ limits' = menfess_table(limits, u, msg, today)
        /\ pc' = [pc EXCEPT ![t] = menfess_pc(limits, u, msg, today)]
        /\ calls' = IF menfess_checks(msg)
                    THEN LogCall(u, limit_type(msg), max_limit(limit_type(msg)),
                                 menfess_pc(limits, u, msg, today) = "mf_copy1")
                    ELSE calls
        /\ UNCHANGED <<today, ncalls, welcome, greeted, ev, lastCall>>

\* where menfess_handler goes when the call it awaits ends with outcome o:
\* reply_text (reject, denied, done) ends the handler either way; copy_message
\* errors are passed over per target; a failing log_event ends the handler
menfess_next(at, o) ==
    CASE at = "mf_copy1" -> "mf_copy2"
      [] at = "mf_copy2" -> "mf_log"
      [] at = "mf_log" -> IF o = "ok" THEN "mf_done" ELSE "idle"
      [] OTHER -> "idle"

MenfessPcs == {"mf_reject", "mf_denied", "mf_copy1", "mf_copy2", "mf_log", "mf_done"}

MenfessResume ==
    \E t \in Tasks, o \in Outcomes :
        /\ pc[t] \in MenfessPcs
        /\ pc' = [pc EXCEPT ![t] = menfess_next(pc[t], o)]
        /\ lastCall' = Attempt(o)
        /\ UNCHANGED <<limits, today, calls, ncalls, welcome, greeted, ev, updates>>

\* -------------------------------------------------------- download_handler
\* An update routed to download_handler: /dl with or without arguments, and
\* what ydl.download does: leaves a media.* file, leaves none, or raises.
DownloadUpdates ==
    {[present |-> FALSE, args |-> FALSE, ydl |-> "nofile"],
     [present |-> TRUE, args |-> FALSE, ydl |-> "nofile"]}
        \cup [present : {TRUE}, args : {TRUE}, ydl : {"file", "nofile", "error"}]

download_checks(upd) == upd.present /\ upd.args

download_table(tbl, u, upd, d) ==
    IF download_checks(upd)
    THEN check_limit_table(tbl, u, "download", d, DownloadLimit)
    ELSE tbl

download_pc(tbl, u, upd, d) ==
    IF ~upd.present THEN "idle"
    ELSE IF ~upd.args THEN "dl_usage"
    ELSE IF ~check_limit_result(tbl, u, "download", d, DownloadLimit) THEN "dl_denied"
    ELSE CASE upd.ydl = "error" -> "dl_fail"
           [] upd.ydl = "file" -> "dl_video"
           [] OTHER -> "idle"

DownloadDispatch ==
    \E t \in Tasks, u \in Users, upd \in DownloadUpdates :
        /\ pc[t] = "idle"
        /\ updates < MaxUpdates
        /\ updates' = updates + 1
        /\ limits' = download_table(limits, u, upd, today)
        /\ pc' = [pc EXCEPT ![t] = download_pc(limits, u, upd, today)]
        /\ calls' = IF download_checks(upd)
                    THEN LogCall(u, "download", DownloadLimit,
                                 download_pc(limits, u, upd, today) # "dl_denied")
                    ELSE calls
        /\ UNCHANGED <<today, ncalls, welcome, greeted, ev, lastCall>>

\* reply_video, then reply_document, then reply_text inside the inner except;
\* an error of that reply_text reaches the outer except and its reply_text
download_next(at, o) ==
    CASE at = "dl_video" -> IF o = "ok" THEN "idle" ELSE "dl_doc"
      [] at = "dl_doc" -> IF o = "ok" THEN "idle" ELSE "dl_sendfail"
      [] at = "dl_sendfail" -> IF o = "ok" THEN "idle" ELSE "dl_fail"
      [] OTHER -> "idle"

DownloadPcs == {"dl_usage", "dl_denied", "dl_video", "dl_doc", "dl_sendfail", "dl_fail"}

DownloadResume ==
    \E t \in Tasks, o \in Outcomes :
        /\ pc[t] \in DownloadPcs
        /\ pc' = [pc EXCEPT ![t] = download_next(pc[t], o)]
        /\ lastCall' = Attempt(o)
        /\ UNCHANGED <<limits, today, calls, ncalls, welcome, greeted, ev, updates>>

\* --------------------------------------------------------- welcome_handler
\* update.message.new_chat_members: one to MaxMembers users, repeats allowed
MemberLists == UNION {[1..n -> Users] : n \in 1..MaxMembers}

\* SELECT user_id FROM welcome WHERE user_id=? ; cur.fetchone()
IsWelcomed(w, m) == m \in w

\* faulty variant: the INSERT is lost
InsertNothing(w, m) == w

\* INSERT INTO welcome VALUES (?) ; conn.commit()
InsertWelcome(w, m) == w \cup {m}

\* the for loop from index i on, up to its next await: the index of the first
\* member that is not in the table, 0 when the loop runs to its end
NextUnwelcomed(w, members, i) ==
    LET js == {j \in i..Len(members) : ~IsWelcomed(w, members[j])}
    IN  IF js = {} THEN 0 ELSE CHOOSE j \in js : \A k \in js : j <= k

\* run task t's loop over `members` from index i to its next await or its end
welcome_loop(t, members, i) ==
    LET j == NextUnwelcomed(welcome, members, i)
    IN  IF j = 0
        THEN /\ pc' = [pc EXCEPT ![t] = "idle"]
             /\ ev' = [ev EXCEPT ![t] = NoEvent]
             /\ UNCHANGED <<welcome, greeted>>
        ELSE /\ welcome' = InsertWelcome(welcome, members[j])
             /\ greeted' = [greeted EXCEPT ![members[j]] = @ + 1]
             /\ pc' = [pc EXCEPT ![t] = "wl_reply"]
             /\ ev' = [ev EXCEPT ![t] = [members |-> members, idx |-> j]]

WelcomeDispatch ==
    \E t \in Tasks, members \in MemberLists :
        /\ pc[t] = "idle"
        /\ updates < MaxUpdates
        /\ updates' = updates + 1
        /\ welcome_loop(t, members, 1)
        /\ UNCHANGED <<limits, today, calls, ncalls, lastCall>>

\* the awaited reply_text ends: the loop goes on, or the error ends the handler
WelcomeResume ==
    \E t \in Tasks, o \in Outcomes :
        /\ pc[t] = "wl_reply"
        /\ lastCall' = Attempt(o)
        /\ IF o = "ok"
           THEN welcome_loop(t, ev[t].members, ev[t].idx + 1)
           ELSE /\ pc' = [pc EXCEPT ![t] = "idle"]
                /\ ev' = [ev EXCEPT ![t] = NoEvent]
                /\ UNCHANGED <<welcome, greeted>>
        /\ UNCHANGED <<limits, today, calls, ncalls, updates>>

\* ---------------------------------------------------------------- SpecBot
\* The handlers run as coroutines of one event loop: a handler runs without
\* interruption from one await to the next. Application.builder().build() as
\* main() calls it dispatches one update after the other; the model also admits
\* up to NumTasks handlers in flight together (what concurrent_updates would
\* allow), of which the one-at-a-time dispatch is a special case.
NextBot ==
    \/ MenfessDispatch
    \/ MenfessResume
    \/ DownloadDispatch
    \/ DownloadResume

SpecBot == Init /\ [][NextBot]_vars

NextWelcome ==
    \/ WelcomeDispatch
    \/ WelcomeResume

SpecWelcome == Init /\ [][NextWelcome]_vars

\* ================================================================ claims
\* the count stored for a triple, 0 when it has no row
CountOf(tbl, k) == IF tbl[k] = <<>> THEN 0 ELSE Head(tbl[k])

\* every call of history h was made with limit L
Uniform(h, L) == \A i \in 1..Len(h) : h[i].limit = L

NumAllowed(h) == Cardinality({i \in 1..Len(h) : h[i].allowed})
NumDenied(h) == Cardinality({i \in 1..Len(h) : ~h[i].allowed})
Min(a, b) == IF a <= b THEN a ELSE b
LastOf(h) == h[Len(h)]
TodayKey(p) == <<p[1], p[2], today>>

\* a check_limit call for pair p happens in this step
Called(p) == today' = today /\ calls'[p] # calls[p]

\* C1: in any sequence of check_limit calls for one (subject, action-type) made
\* on one calendar day with one limit L >= 0, calls 1..L return True and call
\* L+1 and every later call return False.
C1_FirstLAllowedRestDenied ==
    \A p \in Pairs, L \in 0..MaxLimit :
        Uniform(calls[p], L) =>
            \A i \in 1..Len(calls[p]) : calls[p][i].allowed = (i <= L)

\* The same for limits L >= 1 only, where check_limit agrees with it.
PositiveLimit_FirstLAllowedRestDenied ==
    \A p \in Pairs, L \in 1..MaxLimit :
        Uniform(calls[p], L) =>
            \A i \in 1..Len(calls[p]) : calls[p][i].allowed = (i <= L)

\* C2: handler invocations that call check_limit for one (subject, action-type,
\* day) with that action-type's limit L are allowed exactly L times once more
\* than L of them have called, the others are denied, and the stored count
\* never exceeds L, however the handlers interleave.
C2_NoOverAdmission ==
    \A p \in Pairs :
        LET L == LimitOf(p[2])
            h == calls[p]
        IN  /\ Uniform(h, L)
            /\ NumAllowed(h) = Min(Len(h), L)
            /\ NumDenied(h) = Len(h) - Min(Len(h), L)
            /\ Len(limits[TodayKey(p)]) <= 1
            /\ CountOf(limits, TodayKey(p)) = NumAllowed(h)
            /\ CountOf(limits, TodayKey(p)) <= L

\* C2 witness: more invocations than the limit have called check_limit for one
\* pair, one of them was denied, and every handler task is in flight.
C2_Witness ==
    /\ \E p \in Pairs : Len(calls[p]) > LimitOf(p[2]) /\ NumDenied(calls[p]) >= 1
    /\ \A t \in Tasks : pc[t] # "idle"

\* C3: over any interleaving of join events, a subject is in the welcome table
\* exactly when its welcome reply was issued, which happens at most once, and a
\* subject once marked stays marked.
C3_WelcomedOnce ==
    /\ [](\A u \in Users : greeted[u] = IF IsWelcomed(welcome, u) THEN 1 ELSE 0)
    /\ [][\A u \in Users : IsWelcomed(welcome, u) => IsWelcomed(welcome', u)]_vars

\* C3 witness: one handler awaits the welcome reply of a member while another
\* handler, whose event lists that member first, has passed over it and awaits
\* the reply of its second member.
C3_Witness ==
    \E t1, t2 \in Tasks :
        /\ t1 # t2
        /\ pc[t1] = "wl_reply" /\ pc[t2] = "wl_reply"
        /\ ev[t2].idx = 2
        /\ ev[t2].members[1] = ev[t1].members[ev[t1].idx]
        /\ greeted[ev[t2].members[1]] = 1

\* C4: the limits table holds at most one row per (subject, action-type, day),
\* and the count stored for a triple never decreases from one state to the next.
C4_OneRowCountGrows ==
    /\ [](\A k \in Keys : Len(limits[k]) <= 1)
    /\ [][\A k \in Keys : CountOf(limits', k) >= CountOf(limits, k)]_vars

\* C4 witness: a row that was inserted and then updated.
C4_Witness == \E k \in Keys : Len(limits[k]) = 1 /\ CountOf(limits, k) >= 2

\* C5: a check_limit call is denied exactly when the count of its triple (0
\* without a row) is >= limit; a denied call leaves the table unchanged; an
\* allowed call raises the count of its triple by exactly 1.
C5_DeniedIffCountAtLimit ==
    [][\A p \in Pairs :
        Called(p) =>
            LET e == LastOf(calls'[p])
                c == CountOf(limits, TodayKey(p))
            IN  /\ ~e.allowed <=> c >= e.limit
                /\ ~e.allowed => limits' = limits
                /\ e.allowed => CountOf(limits', TodayKey(p)) = c + 1]_vars

\* The denial rule and the effects of a call, for limits >= 1 only.
PositiveLimit_DeniedIffCountAtLimit ==
    [][\A p \in Pairs :
        (Called(p) /\ LastOf(calls'[p]).limit >= 1) =>
            LET e == LastOf(calls'[p])
                c == CountOf(limits, TodayKey(p))
            IN  /\ ~e.allowed <=> c >= e.limit
                /\ ~e.allowed => limits' = limits
                /\ e.allowed => CountOf(limits', TodayKey(p)) = c + 1]_vars

\* C6: the first L calls of a pair on a day are allowed whatever the pair's
\* count on earlier days, and a step never changes a row of a day other than
\* today.
C6_NewDayResets ==
    /\ [](\A p \in Pairs, L \in 0..MaxLimit :
            Uniform(calls[p], L) =>
                \A i \in 1..Min(Len(calls[p]), L) : calls[p][i].allowed)
    /\ [][\A k \in Keys : k[3] # today' => limits'[k] = limits[k]]_vars

\* C6 witness: on the second day a pair that reached its limit L >= 1 on the
\* first day has made L calls with that limit.
C6_Witness ==
    /\ today = 2
    /\ \E p \in Pairs, L \in 1..MaxLimit :
        /\ CountOf(limits, <<p[1], p[2], 1>>) >= L
        /\ Len(calls[p]) = L
        /\ Uniform(calls[p], L)
        /\ CountOf(limits, TodayKey(p)) = L

\* C7: every Telegram call in flight holds a Concurrency Limiter slot, and at
\* most ConcurrencyLimit slots are held.
C7_AttemptHoldsSlot ==
    /\ \A t \in Tasks : pc[t] # "idle" => t \in SlotHolders
    /\ Cardinality(SlotHolders) <= ConcurrencyLimit

\* C8: a call whose every attempt is a retryable failure ends after exactly
\* MaxRetries attempts and MaxRetries - 1 backoff sleeps, and its failure
\* reaches the calling handler.
C8_ExhaustsRetries ==
    lastCall.outcome = "retryable" =>
        /\ lastCall.attempts = MaxRetries
        /\ lastCall.sleeps = MaxRetries - 1
        /\ lastCall.raised

\* C9: a check_limit call changes the rows of no other triple, and it is
\* allowed whenever the count of its own triple is below the limit, whatever
\* the counts of other action-types and subjects.
C9_OtherTriplesUntouched ==
    [][\A p \in Pairs :
        Called(p) =>
            /\ \A k \in Keys : k # TodayKey(p) => limits'[k] = limits[k]
            /\ CountOf(limits, TodayKey(p)) < LastOf(calls'[p]).limit
                   => LastOf(calls'[p]).allowed]_vars

\* C9 witness: one pair's last call was denied at its limit while the last call
\* of another pair (another action-type or another subject) was allowed.
C9_Witness ==
    \E p1, p2 \in Pairs :
        /\ p1 # p2
        /\ calls[p1] # <<>> /\ ~LastOf(calls[p1]).allowed
        /\ CountOf(limits, TodayKey(p1)) >= LastOf(calls[p1]).limit
        /\ calls[p2] # <<>> /\ LastOf(calls[p2]).allowed

\* the awaits of the two input rejections
RejectPcs == {"mf_reject", "dl_usage"}

\* C10: the steps of a handler that rejects its input (menfess_handler without
\* #pria/#wanita, download_handler without arguments) leave the limits table
\* unchanged.
C10_RejectedKeepsQuota ==
    [][\A t \in Tasks :
        (pc'[t] # pc[t] /\ (pc'[t] \in RejectPcs \/ pc[t] \in RejectPcs))
            => limits' = limits]_vars

\* C10 witness: both rejections are in flight while a counter row exists.
C10_Witness ==
    /\ \E t \in Tasks : pc[t] = "mf_reject"
    /\ \E t \in Tasks : pc[t] = "dl_usage"
    /\ \E k \in Keys : limits[k] # <<>>
====
